---- MODULE Spec2Model ----
(***************************************************************************)
(* A model of src/src/weft.js, the "weft" of Raiment: the plugin loader    *)
(* (Weft.addPlugin), the method registry (Weft.mixins), the memoizing call *)
(* interceptor (the function Weft.register stores in mixin[method]), the   *)
(* error codec (obj_from_err, err_from_obj, resolve) and the namespace     *)
(* binder (Weft.dress).                                                    *)
(*                                                                         *)
(* JavaScript values are records of one shape, [kind, type, text, code]:   *)
(*   kind "prim"       a string or number, text is its literal             *)
(*   kind "null", "undefined"                                              *)
(*   kind "Error"      an instance of a native error class: type is the    *)
(*                     constructor's name, text the message, code the own  *)
(*                     diagnostic field `code` ("" when the error has none)*)
(*   kind "object"     a plain object, as JSON.parse returns it: type is   *)
(*                     its `type` field, text its `message`, code its      *)
(*                     `code`                                              *)
(* A completion is how an evaluation ends: [how |-> "return" or "throw",   *)
(* v |-> the value returned or thrown].                                    *)
(***************************************************************************)
EXTENDS Integers, Sequences, FiniteSets, TLC

\* ------------------------------------------------------------------ bounds

\* registerSync/registerAsync attempts over all routers
MaxRegs == 2
\* calls issued through the interceptor over all threads
MaxCalls == 2

\* ------------------------------------------------------------- the inputs

Threads == {"T1", "T2"}
Plugins == {"pA", "pB"}
\* plugin.namespace of each plugin descriptor: the two plugins share a namespace
NamespaceOf(p) == CASE p = "pA" -> "db" [] OTHER -> "db"
Namespaces == {NamespaceOf(p) : p \in Plugins}
Methods == {"get", "append"}
ArgLists == {<<"42">>}

\* ------------------------------------------------------- JavaScript values

JsVal(k, ty, tx, c) == [kind |-> k, type |-> ty, text |-> tx, code |-> c]
JsNull == JsVal("null", "", "", "")
JsUndefined == JsVal("undefined", "", "", "")
Prim(s) == JsVal("prim", "", s, "")
NewError(ty, msg, c) == JsVal("Error", ty, msg, c)
PlainObject(ty, msg, c) == JsVal("object", ty, msg, c)

Return(v) == [how |-> "return", v |-> v]
Throw(v) == [how |-> "throw", v |-> v]

\* The identifiers weft.js binds at module level (lines 46, 53, 64, 78, 85).
\* The file has no other declaration, import or assignment to `global`.
ModuleBindings == {"serial", "obj_from_err", "err_from_obj", "resolve", "Weft"}

\* What evaluating an identifier that no enclosing scope binds does.
ReferenceError(name) == NewError("ReferenceError", name \o " is not defined", "")

\* ------------------------------------------------------------- serializer

\* JSON.stringify followed by JSON.parse, on one element of an array:
\* undefined becomes null, an Error instance keeps only its enumerable own
\* fields (not message, not its class), anything else is kept.
JsonRoundTrip(v) ==
  CASE v.kind = "undefined" -> JsNull
    [] v.kind = "Error" -> PlainObject("", "", v.code)
    [] OTHER -> v

\* serial.encode: the Buffer holding the JSON text of the pair [err, result]
encode(x) == [json |-> <<JsonRoundTrip(x[1]), JsonRoundTrip(x[2])>>]
\* serial.decode
decode(buf) == buf.json

\* serial.key: JSON.stringify([ns+'.'+method, ...args]); the JSON text of an
\* array of strings is modelled by the array itself
key(ns, method, args) == <<ns \o "." \o method>> \o args

\* key + '-' + count (line 148); n = -1 stands for a key with no suffix
SuffixedKey(k, n) == [q |-> k, n |-> n]
PlainKey(k) == SuffixedKey(k, -1)

\* --------------------------------------------------------------- error codec

\* obj_from_err (lines 53-63): line 55 evaluates err_name_regex before
\* anything else is computed; no scope binds that identifier (ModuleBindings),
\* so the call ends there, whatever the error.
obj_from_err(error) ==
  IF "err_name_regex" \in ModuleBindings
    THEN Return(PlainObject(error.type, error.text, error.code))
    ELSE Throw(ReferenceError("err_name_regex"))

\* The global functions whose name ends in "Error" (line 66).
GlobalErrorClasses ==
  {"Error", "RangeError", "TypeError", "ReferenceError", "SyntaxError", "EvalError", "URIError"}

\* line 66: the type tag names a class line 67 can construct
Constructible(t) == t \in GlobalErrorClasses

\* What assigning a property of undefined does (line 71 when err was not set).
TypeError(text) == NewError("TypeError", text, "")

\* err_from_obj (lines 64-75): line 67 constructs an error of the tagged class
\* when the tag names one, and leaves err undefined otherwise; line 69 then
\* evaluates error_props, which no scope binds either, so neither the
\* constructed error nor anything else is returned.
err_from_obj(obj) ==
  IF "error_props" \in ModuleBindings
    THEN IF Constructible(obj.type)
           THEN Return(NewError(obj.type, obj.text, obj.code))
           ELSE Throw(TypeError("Cannot set properties of undefined"))
    ELSE Throw(ReferenceError("error_props"))

\* resolve (lines 78-83): the completion of resolve([err, result])
resolve(x) ==
  IF x[1] # JsNull
    THEN IF x[1].kind = "Error" THEN Throw(x[1])
         ELSE LET e == err_from_obj(x[1])
              IN  IF e.how = "throw" THEN e ELSE Throw(e.v)
    ELSE Return(x[2])

\* ------------------------------------------------------------------ state

VARIABLES
  mixins,      \* Weft.mixins: namespace -> (method -> the wrapped registration)
  mixinOrder,  \* the insertion order of the keys of Weft.mixins (a Map)
  init,        \* per plugin: the promise plugin.init(router) returned
  closed,      \* per plugin: the variable `closed` of its addPlugin call
  nregs,       \* how many registerSync/registerAsync calls were made
  lastReg,     \* the latest of them and how it ended
  leaf,        \* per thread: namespace -> the leaf object dress set up
  dressed,     \* per thread: how its latest dress call ended
  cache,       \* weave.cache at thread ids: thread id -> (key -> Buffer)
  cacheTop,    \* weave.cache at other keys: the entries set by cache.set(key, ..)
  calls,       \* every call of a wrapped method, in the order issued
  killed       \* the threads the weave has killed

vars == <<mixins, mixinOrder, init, closed, nregs, lastReg, leaf, dressed,
          cache, cacheTop, calls, killed>>

registryVars == <<mixins, mixinOrder, init, closed, nregs, lastReg>>
threadVars == <<leaf, dressed, cache, cacheTop, calls, killed>>

EmptyMap == << >>
Has(map, k) == k \in DOMAIN map
\* Map.set / property assignment: the entry of k is replaced or added
Put(map, k, v) == (k :> v) @@ map

NoReg == [plugin |-> "", ns |-> "", method |-> "", result |-> "none"]

\* ----------------------------------------------- the cache a thread starts with

\* The Buffers a storage backend restores: an earlier run's value, and an
\* earlier run's failure as a plain record with a type tag and own fields.
StoredValue == encode(<<JsNull, Prim("Bob")>>)
StoredError == encode(<<PlainObject("RangeError", "no such recipient", "NO_SUCH_RECIPIENT"), JsNull>>)
\* a failure of a class of the plugin's own, which is no global function
StoredForeignError == encode(<<PlainObject("DbError", "log is full", "LOG_FULL"), JsNull>>)

\* weave.cache as the weave hands it over: T1 is a thread resumed from the
\* storage backend, which had failed db.get(42) and made two db.append(42),
\* the second of which failed; T2 is a new thread.
RestoredCache ==
  [t \in Threads |->
     IF t = "T1"
       THEN (PlainKey(key("db", "get", <<"42">>)) :> StoredError)
            @@ (SuffixedKey(key("db", "append", <<"42">>), 1) :> StoredValue)
            @@ (SuffixedKey(key("db", "append", <<"42">>), 2) :> StoredForeignError)
       ELSE EmptyMap]

\* new Weft(weave) (lines 86-89): no mixin yet; the weave holds one cache per
\* thread id.
Init ==
  /\ mixins = EmptyMap
  /\ mixinOrder = << >>
  /\ init = [p \in Plugins |-> "not added"]
  /\ closed = [p \in Plugins |-> FALSE]
  /\ nregs = 0
  /\ lastReg = NoReg
  /\ leaf = [t \in Threads |-> EmptyMap]
  /\ dressed = [t \in Threads |-> "never"]
  /\ cache = RestoredCache
  /\ cacheTop = EmptyMap
  /\ calls = [t \in Threads |-> << >>]
  /\ killed = {}

\* ------------------------------------------------------------ plugin loader

\* addPlugin, lines 96-100: the mixin of the namespace is created unless the
\* Map has it, and plugin.init(router) is called and returns its promise.
AddPlugin(p) ==
  /\ init[p] = "not added"
  /\ LET ns == NamespaceOf(p)
     IN  /\ mixins' = IF Has(mixins, ns) THEN mixins ELSE Put(mixins, ns, EmptyMap)
         /\ mixinOrder' = IF Has(mixins, ns) THEN mixinOrder ELSE Append(mixinOrder, ns)
  /\ init' = [init EXCEPT ![p] = "pending"]
  /\ UNCHANGED <<closed, nregs, lastReg, threadVars>>

\* The promise plugin.init returned is fulfilled.
InitResolve(p) ==
  /\ init[p] = "pending"
  /\ init' = [init EXCEPT ![p] = "fulfilled"]
  /\ UNCHANGED <<mixins, mixinOrder, closed, nregs, lastReg, threadVars>>

\* The reaction of line 113 runs: _ => closed = true
CloseRegistry(p) ==
  /\ init[p] = "fulfilled"
  /\ ~closed[p]
  /\ closed' = [closed EXCEPT ![p] = TRUE]
  /\ UNCHANGED <<mixins, mixinOrder, init, nregs, lastReg, threadVars>>

\* A router that never looks at `closed`.
RouterNeverClosed(p) == FALSE

\* lines 102 and 108: if (closed) throw
RouterClosed(p) == closed[p]

\* register, lines 123-129: the options of a registration. form "omitted" is
\* registerSync(method, handler), "empty" passes {}, "cacheBuster" passes
\* {cacheBuster: true}.
OptionForms == {"omitted", "empty", "cacheBuster"}
CacheBusterOf(form) == form = "cacheBuster"

\* register, lines 118-131: mixin[method] = function ..., whatever mixin[method]
\* held before. A handler is named after the plugin whose function it is.
register(sync, ns, method, form, handler) ==
  Put(mixins, ns,
      Put(mixins[ns], method,
          [sync |-> sync, cacheBuster |-> CacheBusterOf(form), handler |-> handler]))

\* The registrations a plugin's init may make: pA is the db plugin, pB one
\* that shares its namespace and registers the same names its own way.
Registrations(p) ==
  IF p = "pA"
    THEN { [sync |-> TRUE, method |-> "get", form |-> "omitted"],
           [sync |-> FALSE, method |-> "append", form |-> "cacheBuster"] }
    ELSE { [sync |-> FALSE, method |-> "get", form |-> "empty"],
           [sync |-> TRUE, method |-> "append", form |-> "cacheBuster"] }

\* router.registerSync / router.registerAsync of plugin p (lines 101-112)
Register(p, sync, method, form) ==
  /\ init[p] # "not added"
  /\ [sync |-> sync, method |-> method, form |-> form] \in Registrations(p)
  /\ nregs < MaxRegs
  /\ nregs' = nregs + 1
  /\ LET ns == NamespaceOf(p)
     IN  IF RouterClosed(p)
           THEN /\ lastReg' = [plugin |-> p, ns |-> ns, method |-> method, result |-> "closed"]
                /\ mixins' = mixins
           ELSE /\ lastReg' = [plugin |-> p, ns |-> ns, method |-> method, result |-> "ok"]
                /\ mixins' = register(sync, ns, method, form, p)
  /\ UNCHANGED <<mixinOrder, init, closed, threadVars>>

\* --------------------------------------------------------- namespace binder

\* Threads exist once the weave is initialized (lines 92-94): every plugin of
\* the weave's io list has been added and has finished registering.
WeaveInitialized == \A p \in Plugins : closed[p]

\* how many calls were issued; no thread is dressed or killed once the model's
\* budget of calls is used up
NumCalls == Len(calls["T1"]) + Len(calls["T2"])

\* dress, line 193: `for (let key of mixin)` asks the mixin for its iterator.
\* A mixin is Object.create(null) (line 98), which has none.
MixinIterable == FALSE

\* lines 185-192: the leaf of a namespace is created unless the thread object
\* has it (`had` holds its methods then); thread_id and cacheBuster are set anew
NewLeaf(thread_id, had) == [thread_id |-> thread_id, cacheBuster |-> EmptyMap, methods |-> had]

\* lines 193-195, were the mixin iterable: its methods become the leaf's
CopyMethods(lf, mixin) == [lf EXCEPT !.methods = @ \cup DOMAIN mixin]

\* dress, lines 181-196, over the namespaces `order` still to be visited:
\* lines 191-192 set the leaf up, line 193 throws a TypeError unless the mixin
\* can be iterated, which ends the loop of line 181 as well.
RECURSIVE DressLoop(_, _, _)
DressLoop(order, leaves, thread_id) ==
  IF order = << >> THEN [leaves |-> leaves, ended |-> "returned"]
  ELSE LET ns == Head(order)
           had == IF Has(leaves, ns) THEN leaves[ns].methods ELSE {}
           bound == Put(leaves, ns, NewLeaf(thread_id, had))
       IN  IF MixinIterable
             THEN DressLoop(Tail(order),
                            Put(leaves, ns, CopyMethods(bound[ns], mixins[ns])), thread_id)
             ELSE [leaves |-> bound, ended |-> "TypeError"]

\* weft.dress(proto_thread, thread_id) for the thread object of t
Dress(t) ==
  /\ WeaveInitialized
  /\ NumCalls < MaxCalls
  /\ LET d == DressLoop(mixinOrder, leaf[t], t)
     IN  /\ leaf' = [leaf EXCEPT ![t] = d.leaves]
         /\ dressed' = [dressed EXCEPT ![t] = d.ended]
  /\ UNCHANGED <<registryVars, cache, cacheTop, calls, killed>>

\* The weave kills a thread. weft.js has no operation for it; the flag is the
\* cancellation flag of the design.
Kill(t) ==
  /\ WeaveInitialized
  /\ NumCalls < MaxCalls
  /\ t \notin killed
  /\ killed' = killed \cup {t}
  /\ UNCHANGED <<registryVars, leaf, dressed, cache, cacheTop, calls>>

\* ------------------------------------------------------- call interceptor

\* What a handler does when it is invoked: a sync handler returns the value or
\* throws the error; an async handler's promise is fulfilled with the value or
\* rejected with the error.
DomainError == NewError("RangeError", "no such recipient", "NO_SUCH_RECIPIENT")
HandlerOutcomes == {Return(Prim("Alice")), Throw(DomainError)}

Pending == [how |-> "pending", v |-> JsUndefined]

\* lines 143-146: the count of this request, 1 unless the table holds a number
BusterCount(lf, k) == IF Has(lf.cacheBuster, k) THEN lf.cacheBuster[k] ELSE 1

\* lines 138-149: the key the cache is consulted with
EffectiveKey(reg, lf, k) ==
  IF reg.cacheBuster THEN SuffixedKey(k, BusterCount(lf, k)) ELSE PlainKey(k)

\* A call that leaves the table of request numbers as it found it.
LeafKeepsCount(reg, lf, k) == lf

\* A call that counts the requests of every method, cache-busting or not.
LeafCountsEveryMethod(reg, lf, k) ==
  [lf EXCEPT !.cacheBuster = Put(@, k, BusterCount(lf, k) + 1)]

\* line 147: this.cacheBuster.set(key, count + 1), on the leaf that is `this`
LeafAfterCall(reg, lf, k) ==
  IF reg.cacheBuster
    THEN [lf EXCEPT !.cacheBuster = Put(@, k, BusterCount(lf, k) + 1)]
    ELSE lf

\* A lookup in one Map for all threads, keyed by the request alone.
LookupShared(thread_id, ekey) ==
  IF Has(cacheTop, ekey)
    THEN [found |-> TRUE, buf |-> cacheTop[ekey], store |-> "top"]
    ELSE [found |-> FALSE, buf |-> encode(<<JsNull, JsNull>>), store |-> "none"]

\* line 152: cache.get(thread_id).get(key); store names the Map it was read from
Lookup(thread_id, ekey) ==
  IF Has(cache[thread_id], ekey)
    THEN [found |-> TRUE, buf |-> cache[thread_id][ekey], store |-> thread_id]
    ELSE [found |-> FALSE, buf |-> encode(<<JsNull, JsNull>>), store |-> "none"]

\* A handler invocation that hands the request number over as an argument.
HandlerArgsNumbered(args, count, thread_id) ==
  IF count < 0 THEN Append(args, thread_id)
  ELSE Append(Append(args, ToString(count)), thread_id)

\* lines 162 and 169: handler(...args, thread_id); count is the number the
\* key was suffixed with, which is not handed over
HandlerArgs(args, count, thread_id) == Append(args, thread_id)

\* lines 161-165, the handler having completed with hc (for an async method,
\* lines 170-173, its promise having settled with hc): the pair [err, result],
\* or the error obj_from_err throws
Capture(hc) ==
  IF hc.how = "return" THEN Return(<<JsNull, hc.v>>)
  ELSE LET o == obj_from_err(hc.v)
       IN  IF o.how = "throw" THEN o ELSE Return(<<o.v, JsNull>>)

\* lines 160-168: line 166 evaluates `err`, which is bound neither in the
\* wrapper (thread_id, key, cached, result, args, count, e) nor around it,
\* before cache.set is called: nothing is stored and line 167 is not reached.
SyncMiss(hc) ==
  IF Capture(hc).how = "throw" THEN Capture(hc) ELSE Throw(ReferenceError("err"))

\* lines 174-177: the callback has no return statement, so the promise is
\* fulfilled with undefined unless resolve(x) throws
AsyncSurface(x) == IF resolve(x).how = "throw" THEN resolve(x) ELSE Return(JsUndefined)

\* A store into the Map weave.cache holds for the thread.
AsyncStoreOwn(thread_id, ekey, x) ==
  [cache |-> [cache EXCEPT ![thread_id] = Put(@, ekey, encode(x))],
   cacheTop |-> cacheTop, wrote |-> thread_id]

\* line 175: cache.set(key, ...) sets an entry of weave.cache itself, not of
\* the Map weave.cache holds for the thread
AsyncStore(thread_id, ekey, x) ==
  [cache |-> cache, cacheTop |-> Put(cacheTop, ekey, encode(x)), wrote |-> "top"]

\* One call of a wrapped method, as `calls` records it: what was called, the
\* key and the cache entry it found, whether the handler was invoked and how
\* it completed (handled), the arguments it was invoked with (passed), the outcome the caller got (out; for an async
\* method how its promise settled), the Map the call stored into (wrote) and
\* the earlier calls of the thread that had completed when it was issued;
\* topHad tells whether weave.cache itself held an entry of the key then.
CallRecord(t, ns, m, args, reg, ekey, found) ==
  [ns |-> ns, method |-> m, args |-> args, sync |-> reg.sync,
   cacheBuster |-> reg.cacheBuster, handler |-> reg.handler, ekey |-> ekey,
   path |-> IF found.found THEN "hit" ELSE "miss", from |-> found.store,
   stored |-> decode(found.buf),
   invoked |-> 0, handled |-> Pending, out |-> Pending, wrote |-> "none",
   passed |-> << >>,
   after |-> {i \in DOMAIN calls[t] : calls[t][i].out # Pending},
   topHad |-> Has(cacheTop, ekey)]

\* mixin[method].apply(leaf, args) for a sync method (lines 131-168); hc is
\* what the handler does if it is invoked. The wrapper is the one the registry
\* holds and `this` is the leaf dress set up for the thread: dress does not get
\* to line 194, which would have made the wrapper a method of that leaf.
SyncCall(t, ns, m, args, hc) ==
  /\ WeaveInitialized
  /\ NumCalls < MaxCalls
  /\ Has(leaf[t], ns) /\ Has(mixins, ns) /\ Has(mixins[ns], m)
  /\ mixins[ns][m].sync
  /\ LET reg == mixins[ns][m]
         lf == leaf[t][ns]
         k == key(ns, m, args)
         ekey == EffectiveKey(reg, lf, k)
         found == Lookup(lf.thread_id, ekey)
         c == CallRecord(t, ns, m, args, reg, ekey, found)
     IN  /\ leaf' = [leaf EXCEPT ![t] = Put(@, ns, LeafAfterCall(reg, lf, k))]
         /\ calls' = [calls EXCEPT ![t] = Append(@,
              IF found.found
                THEN [c EXCEPT !.out = resolve(decode(found.buf))]
                ELSE [c EXCEPT !.invoked = 1, !.handled = hc, !.out = SyncMiss(hc),
                               !.passed = HandlerArgs(args, ekey.n, lf.thread_id)])]
  /\ UNCHANGED <<registryVars, dressed, cache, cacheTop, killed>>

\* A hit that hands the stored outcome over in the call itself.
HitSettled(stored) == resolve(stored)

\* line 155: Promise.resolve(null).then(_ => resolve(result)) is a promise
\* that is pending when the call returns it, whatever the entry holds
HitPromise(stored) == Pending

\* mixin[method].apply(leaf, args) for an async method (lines 131-156 and 169):
\* the caller gets a promise; on a miss the handler has been invoked
AsyncCall(t, ns, m, args) ==
  /\ WeaveInitialized
  /\ NumCalls < MaxCalls
  /\ Has(leaf[t], ns) /\ Has(mixins, ns) /\ Has(mixins[ns], m)
  /\ ~mixins[ns][m].sync
  /\ LET reg == mixins[ns][m]
         lf == leaf[t][ns]
         k == key(ns, m, args)
         ekey == EffectiveKey(reg, lf, k)
         found == Lookup(lf.thread_id, ekey)
         c == CallRecord(t, ns, m, args, reg, ekey, found)
     IN  /\ leaf' = [leaf EXCEPT ![t] = Put(@, ns, LeafAfterCall(reg, lf, k))]
         /\ calls' = [calls EXCEPT ![t] = Append(@,
              IF found.found
                THEN [c EXCEPT !.out = HitPromise(c.stored)]
                ELSE [c EXCEPT !.invoked = 1,
                               !.passed = HandlerArgs(args, ekey.n, lf.thread_id)])]
  /\ UNCHANGED <<registryVars, dressed, cache, cacheTop, killed>>

\* The reaction of line 155 runs: the promise of a hit settles
SettleHit(t, i) ==
  /\ i \in DOMAIN calls[t]
  /\ calls[t][i].out = Pending /\ calls[t][i].path = "hit"
  /\ calls' = [calls EXCEPT ![t][i].out = resolve(calls[t][i].stored)]
  /\ UNCHANGED <<registryVars, leaf, dressed, cache, cacheTop, killed>>

\* The handler's promise settles with hc and the reactions of lines 170-177 run
SettleMiss(t, i, hc) ==
  /\ i \in DOMAIN calls[t]
  /\ calls[t][i].out = Pending /\ calls[t][i].path = "miss"
  /\ LET x == Capture(hc)
         st == AsyncStore(t, calls[t][i].ekey, x.v)
     IN  IF x.how = "throw"
           THEN /\ calls' = [calls EXCEPT ![t][i].handled = hc, ![t][i].out = x]
                /\ UNCHANGED <<cache, cacheTop>>
           ELSE /\ calls' = [calls EXCEPT ![t][i].handled = hc,
                                          ![t][i].out = AsyncSurface(x.v),
                                          ![t][i].wrote = st.wrote]
                /\ cache' = st.cache
                /\ cacheTop' = st.cacheTop
  /\ UNCHANGED <<registryVars, leaf, dressed, killed>>

\* ------------------------------------------------------------ specification

Next ==
  \/ \E p \in Plugins : AddPlugin(p)
  \/ \E p \in Plugins : InitResolve(p)
  \/ \E p \in Plugins : CloseRegistry(p)
  \/ \E p \in Plugins, sync \in BOOLEAN, m \in Methods, form \in OptionForms :
       Register(p, sync, m, form)
  \/ \E t \in Threads : Dress(t)
  \/ \E t \in Threads : Kill(t)
  \/ \E t \in Threads, ns \in Namespaces, m \in Methods, args \in ArgLists,
        hc \in HandlerOutcomes : SyncCall(t, ns, m, args, hc)
  \/ \E t \in Threads, ns \in Namespaces, m \in Methods, args \in ArgLists :
       AsyncCall(t, ns, m, args)
  \/ \E t \in Threads, i \in 1..MaxCalls : SettleHit(t, i)
  \/ \E t \in Threads, i \in 1..MaxCalls, hc \in HandlerOutcomes : SettleMiss(t, i, hc)

Spec == Init /\ [][Next]_vars

\* ------------------------------------------------------------------ claims

\* the calls of thread t that have completed
Done(t) == {i \in DOMAIN calls[t] : calls[t][i].out # Pending}
\* two calls are the same call: same namespace, method and arguments
SameCall(c, d) == c.ns = d.ns /\ c.method = d.method /\ c.args = d.args
\* two errors have the same type tag and the same own fields
SameError(a, b) == a.type = b.type /\ a.text = b.text /\ a.code = b.code
\* the error a handler threw, as the caller is meant to see it
Fails(out, e) == out.how = "throw" /\ SameError(out.v, e)

\* C1 (Determinism): when a thread issues the same call of a method that is not
\* cache-busting twice, the second after the first has completed, the second
\* call has the outcome of the first and the handler was invoked at most once
\* over both.
C1_Determinism ==
  \A t \in Threads : \A j \in Done(t) : \A i \in calls[t][j].after :
    LET c == calls[t][i]
        d == calls[t][j]
    IN  (SameCall(c, d) /\ ~c.cacheBuster /\ ~d.cacheBuster)
          => /\ d.out = c.out
             /\ c.invoked + d.invoked <= 1

\* C2 (Cache-busting distinctness): the N completed calls a thread that started
\* with an empty cache has made of one cache-busting method with the same
\* arguments invoked the handler N times and left N distinct entries, one per
\* call, in the thread's own cache.
C2_CacheBustingDistinctness ==
  \A t \in Threads : \A j \in Done(t) :
    LET d == calls[t][j]
        same == {i \in Done(t) : SameCall(calls[t][i], d) /\ calls[t][i].cacheBuster}
    IN  (RestoredCache[t] = EmptyMap /\ d.cacheBuster)
          => /\ \A i \in same : calls[t][i].invoked = 1
             /\ Cardinality({calls[t][i].ekey : i \in same}) = Cardinality(same)
             /\ \A i \in same : Has(cache[t], calls[t][i].ekey)

\* C3 (Handler failures are cached and replayed): a call whose handler raised
\* or rejected fails with that error; a later call of the thread with the same
\* arguments of a method that is not cache-busting fails with an error of the
\* same type tag and own fields without invoking the handler; and a hit on a
\* stored failure never yields a value.
C3_FailuresCachedAndReplayed ==
  \A t \in Threads : \A j \in Done(t) :
    LET d == calls[t][j]
    IN  /\ (d.invoked = 1 /\ d.handled.how = "throw") => Fails(d.out, d.handled.v)
        /\ \A i \in d.after :
             LET c == calls[t][i]
             IN  (SameCall(c, d) /\ ~c.cacheBuster /\ ~d.cacheBuster
                  /\ c.invoked = 1 /\ c.handled.how = "throw")
                   => d.invoked = 0 /\ Fails(d.out, c.handled.v)
        /\ (d.path = "hit" /\ d.stored[1] # JsNull) => d.out.how = "throw"

\* C4 (Isolation): a call never returns an entry that a call of another thread
\* stored, and a call of one thread leaves the cache of every other thread as
\* it was.
C4_NoForeignOutcome ==
  \A t \in Threads : \A i \in DOMAIN calls[t] :
    calls[t][i].path = "hit" =>
      \A u \in Threads \ {t} : \A j \in DOMAIN calls[u] :
        ~(calls[u][j].wrote = calls[t][i].from /\ calls[u][j].ekey = calls[t][i].ekey)
C4_OthersCacheUntouched ==
  \A t \in Threads :
    calls'[t] # calls[t] => \A u \in Threads \ {t} : cache'[u] = cache[u]
C4_Isolation == [](C4_NoForeignOutcome) /\ [][C4_OthersCacheUntouched]_vars

\* C4's case: T2 stored the outcome of db.get(42), and T1, issuing db.get(42)
\* when that entry was there, got the failure of its own cache.
C4_Witness ==
  /\ \E j \in Done("T2") : calls["T2"][j].wrote # "none"
                           /\ calls["T2"][j].ekey = PlainKey(key("db", "get", <<"42">>))
  /\ \E i \in Done("T1") : /\ calls["T1"][i].ekey = PlainKey(key("db", "get", <<"42">>))
                           /\ calls["T1"][i].topHad
                           /\ calls["T1"][i].from = "T1"
                           /\ calls["T1"][i].out.how = "throw"

\* what a killed thread's call is to fail with
IsDisconnection(out) == out.how = "throw" /\ out.v.text = "disconnected"

\* C5 (Disconnection): a call issued by a thread that has been killed fails at
\* once with a disconnection error and invokes no handler, hit or miss, sync or
\* async.
C5_Disconnection ==
  [][\A t \in Threads :
       (t \in killed /\ Len(calls'[t]) = Len(calls[t]) + 1)
         => LET c == calls'[t][Len(calls'[t])]
            IN  c.invoked = 0 /\ IsDisconnection(c.out)]_vars

\* C6 (Replay from a pre-populated cache): a completed call whose key was in
\* the thread's cache invoked no handler and yielded the stored outcome: the
\* stored value, or the stored error raised or rejected.
C6_Replay ==
  \A t \in Threads : \A i \in Done(t) :
    LET c == calls[t][i]
    IN  c.path = "hit" =>
          /\ c.invoked = 0
          /\ c.stored[1] = JsNull => c.out = Return(c.stored[2])
          /\ c.stored[1] # JsNull => Fails(c.out, c.stored[1])

\* C7 (Synchronous miss): a sync call whose key was absent invoked the handler
\* once, stored the outcome under its key in the thread's own cache, and
\* returned the handler's value or raised the handler's error, no other.
C7_SyncMiss ==
  \A t \in Threads : \A i \in Done(t) :
    LET c == calls[t][i]
    IN  (c.sync /\ c.path = "miss") =>
          /\ c.invoked = 1
          /\ Has(cache[t], c.ekey)
          /\ c.handled.how = "return" => c.out = c.handled
          /\ c.handled.how = "throw" => Fails(c.out, c.handled.v)

\* C8 (Asynchronous miss): the promise of an async call whose key was absent
\* resolves with the value the handler resolved with, which is the value a
\* later hit resolves with, or rejects with the handler's error, the outcome
\* having been stored under its key in the thread's own cache.
C8_AsyncMiss ==
  \A t \in Threads : \A i \in Done(t) :
    LET c == calls[t][i]
    IN  (~c.sync /\ c.path = "miss") =>
          /\ c.handled.how = "return" =>
               /\ c.out = c.handled
               /\ Has(cache[t], c.ekey)
               /\ Has(cache[t], c.ekey) => resolve(decode(cache[t][c.ekey])) = c.out
          /\ c.handled.how = "throw" => Fails(c.out, c.handled.v)

C10_DuplicateRejected ==
  [][(nregs' = nregs + 1 /\ Has(mixins[lastReg'.ns], lastReg'.method))
       => (lastReg'.result # "ok" /\ mixins' = mixins)]_vars

\* the call a step has just issued for thread t, if it issued one
Issues(t) == Len(calls'[t]) = Len(calls[t]) + 1
Issued(t) == calls'[t][Len(calls'[t])]
\* the request key of a call, before any suffix
BaseKey(c) == key(c.ns, c.method, c.args)

\* obj_from_err, serial.encode, serial.decode and err_from_obj in turn, on the
\* error e a handler threw (lines 164 and 172, then 153 and 80)
CodecRoundTrip(e) ==
  LET o == obj_from_err(e)
  IN  IF o.how = "throw" THEN o
      ELSE err_from_obj(decode(encode(<<o.v, JsNull>>))[1])

\* C11 (Error round-trip): for every error of a constructible class that a
\* handler threw, decoding its encoding (obj_from_err, through the serializer,
\* then err_from_obj) yields an error with the same type tag and the same own
\* fields.
C11_ErrorRoundTrip ==
  \A t \in Threads : \A i \in DOMAIN calls[t] :
    LET e == calls[t][i].handled
    IN  (e.how = "throw" /\ Constructible(e.v.type))
          => LET r == CodecRoundTrip(e.v)
             IN  r.how = "return" /\ r.v.kind = "Error" /\ SameError(r.v, e.v)

\* C12 (Write-once cache): no step overwrites, changes or removes an entry a
\* thread's own cache holds, and no key of a thread's own cache is written by
\* more than one call.
C12_EntriesKept ==
  \A t \in Threads : \A k \in DOMAIN cache[t] :
    Has(cache'[t], k) /\ cache'[t][k] = cache[t][k]
C12_WrittenAtMostOnce ==
  \A t \in Threads : \A u \in Threads, v \in Threads :
    \A i \in DOMAIN calls[u] : \A j \in DOMAIN calls[v] :
      (calls[u][i].wrote = t /\ calls[v][j].wrote = t /\ calls[u][i].ekey = calls[v][j].ekey)
        => (u = v /\ i = j)
C12_WriteOnce == [](C12_WrittenAtMostOnce) /\ [][C12_EntriesKept]_vars

\* C12's case: T1's cache holds the outcome of a key, a later call has stored
\* an outcome of that very key, and T1's cache is what it was.
C12_Witness ==
  /\ \E u \in Threads : \E j \in Done(u) :
       calls[u][j].wrote # "none" /\ Has(cache["T1"], calls[u][j].ekey)
  /\ \E i \in Done("T1") : calls["T1"][i].path = "hit"
  /\ cache["T1"] = RestoredCache["T1"]

\* C13 (Cache-buster key numbering): a call of a cache-busting method uses the
\* counter of its base key k, 0 when the table has none, in its effective key
\* k-counter, and leaves the next integer in the table.
C13_KeyNumbering ==
  [][\A t \in Threads :
       (Issues(t) /\ Issued(t).cacheBuster)
         => LET c == Issued(t)
                table == leaf[t][c.ns].cacheBuster
            IN  /\ ~Has(table, BaseKey(c)) => c.ekey = SuffixedKey(BaseKey(c), 0)
                /\ Has(table, BaseKey(c)) => c.ekey = SuffixedKey(BaseKey(c), table[BaseKey(c)])
                /\ leaf'[t][c.ns].cacheBuster[BaseKey(c)] = c.ekey.n + 1]_vars

\* C14 (Handler inputs are not distorted): whenever a handler was invoked, for
\* a cache-busting method or not, it was invoked with the caller's arguments
\* followed by the thread's identity and nothing else.
C14_HandlerInputs ==
  \A t \in Threads : \A i \in DOMAIN calls[t] :
    calls[t][i].invoked = 1 => calls[t][i].passed = Append(calls[t][i].args, t)

\* C14's case: a handler was invoked for a cache-busting call whose key carried
\* a request number, and one for a call of a method that is not cache-busting.
C14_Witness ==
  /\ \E t \in Threads : \E i \in DOMAIN calls[t] :
       /\ calls[t][i].cacheBuster /\ calls[t][i].ekey.n >= 1 /\ calls[t][i].invoked = 1
       /\ calls[t][i].passed = <<"42", t>>
  /\ \E t \in Threads : \E i \in DOMAIN calls[t] :
       /\ ~calls[t][i].cacheBuster /\ calls[t][i].invoked = 1
       /\ calls[t][i].passed = <<"42", t>>

\* C15 (Asynchronous outcomes are never delivered synchronously): when a call
\* of an async method returns, hit or miss, its promise is pending: the value
\* or error comes in a later step.
C15_AsyncNeverSync ==
  [][\A t \in Threads :
       (Issues(t) /\ ~Issued(t).sync) => Issued(t).out = Pending]_vars

\* C15's case: an async call that hit and an async call that missed have both
\* delivered their outcome.
C15_Witness ==
  /\ \E t \in Threads : \E i \in Done(t) : ~calls[t][i].sync /\ calls[t][i].path = "hit"
  /\ \E t \in Threads : \E i \in Done(t) : ~calls[t][i].sync /\ calls[t][i].path = "miss"

\* C16 (Concurrent same-key misses are guarded): when a thread issues the same
\* call of an async method that is not cache-busting while an earlier such call
\* that missed is still pending, the handler is invoked once over both and the
\* two calls, once complete, have the same outcome.
C16_ConcurrentMissGuard ==
  \A t \in Threads : \A i \in DOMAIN calls[t], j \in DOMAIN calls[t] :
    LET c == calls[t][i]
        d == calls[t][j]
    IN  (i < j /\ SameCall(c, d) /\ ~c.sync /\ ~d.sync /\ ~c.cacheBuster /\ ~d.cacheBuster
         /\ c.path = "miss" /\ i \notin d.after)
          => /\ c.invoked + d.invoked <= 1
             /\ (c.out # Pending /\ d.out # Pending) => d.out = c.out

\* C17 (Codec fallback): decoding a stored error record whose type tag names
\* no constructible error class does not fail; it yields an error of the
\* generic class Error that carries the record's fields.
C17_CodecFallback ==
  \A t \in Threads : \A i \in DOMAIN calls[t] :
    LET rec == calls[t][i].stored[1]
    IN  (calls[t][i].path = "hit" /\ rec.kind = "object" /\ ~Constructible(rec.type))
          => LET r == err_from_obj(rec)
             IN  /\ r.how = "return"
                 /\ r.v.kind = "Error" /\ r.v.type = "Error"
                 /\ r.v.text = rec.text /\ r.v.code = rec.code

\* a step that is a dress call for the thread object of t
Dresses(t) == (leaf'[t] # leaf[t] \/ dressed'[t] # dressed[t]) /\ calls'[t] = calls[t]

\* C18 (Namespace binding): a dress call returns, and it leaves at the leaf of
\* every registered namespace the thread's identity, an empty counter table
\* and every method registered in the namespace.
C18_NamespaceBinding ==
  [][\A t \in Threads :
       Dresses(t)
         => /\ dressed'[t] = "returned"
            /\ \A ns \in DOMAIN mixins :
                 /\ Has(leaf'[t], ns)
                 /\ leaf'[t][ns].thread_id = t
                 /\ leaf'[t][ns].cacheBuster = EmptyMap
                 /\ DOMAIN mixins[ns] \subseteq leaf'[t][ns].methods]_vars

\* C19 (Sequence numbers align across replay): a dress call leaves every
\* counter table of the thread empty; a call of a cache-busting method uses
\* the count of its base key, 1 when the table has none, and leaves the count
\* one higher whether it hits or misses; and when the thread's cache holds an
\* entry of the key with that count, the call reads that entry and invokes no
\* handler.
C19_SequenceAlignment ==
  [][\A t \in Threads :
       /\ Dresses(t) => \A ns \in DOMAIN leaf'[t] : leaf'[t][ns].cacheBuster = EmptyMap
       /\ (Issues(t) /\ Issued(t).cacheBuster)
            => LET c == Issued(t)
                   k == BaseKey(c)
                   table == leaf[t][c.ns].cacheBuster
                   n == IF Has(table, k) THEN table[k] ELSE 1
               IN  /\ c.ekey = SuffixedKey(k, n)
                   /\ Has(leaf'[t][c.ns].cacheBuster, k)
                   /\ leaf'[t][c.ns].cacheBuster[k] = n + 1
                   /\ Has(cache[t], SuffixedKey(k, n))
                        => /\ c.path = "hit" /\ c.invoked = 0
                           /\ c.stored = decode(cache[t][SuffixedKey(k, n)])]_vars

\* C19's case: T1, resumed over a cache that holds the first and the second
\* db.append(42) of its earlier run, has made its first and its second
\* db.append(42); the first read the first entry, the second the second, and
\* no handler was invoked.
C19_Witness ==
  /\ Len(calls["T1"]) = 2
  /\ \A i \in {1, 2} :
       /\ calls["T1"][i].ekey = SuffixedKey(key("db", "append", <<"42">>), i)
       /\ calls["T1"][i].path = "hit" /\ calls["T1"][i].invoked = 0
       /\ calls["T1"][i].from = "T1"
  /\ calls["T1"][1].stored = decode(StoredValue)
  /\ calls["T1"][2].stored = decode(StoredForeignError)

====
